---- MODULE Spec2Model ----
(***************************************************************************)
(* Model of the two inference notebooks of the protein-engineering labs:   *)
(*   Lab 2  embeddings (AMPLIFY), cosine distance, sort, top five          *)
(*   Lab 3  structures (ESMFold), RMSD after superposition, sort, top three*)
(*                                                                         *)
(* A notebook is a list of cells run in order by one kernel.  A cell that  *)
(* raises stops there, keeps what it has already assigned, and the kernel  *)
(* stays alive: the next cell can still be run.  A loop body is one step, *)
(* except in Step 3.2 of Lab 3, whose turns sleep while the runs started   *)
(* before go on: there a turn is three steps.                              *)
(*                                                                         *)
(* Numbers are exact.  A cosine distance 1 - uv/sqrt(w) is kept as the     *)
(* pair (uv, w); an RMSD sqrt(sq/n) is kept as the pair (sq, n); NaN and   *)
(* None are values of their own.  Comparisons follow IEEE-754: every       *)
(* comparison with NaN is false.                                           *)
(***************************************************************************)
EXTENDS Integers, Sequences, FiniteSets, TLC

VARIABLES
    nb,             \* the notebook this kernel runs: "lab2" or "lab3"
    pc,             \* the next cell to run
    i,              \* 1-based position of the loop of the running cell
    stmt,           \* Lab 3, Step 3.2: the statement of the loop body to run next
    status,         \* per cell: "notrun", "ok" or the exception it raised
    files,          \* the files under ./data that the notebooks read and write
    gen_sequences,  \* Lab 2: list of candidate dicts
    ref_embeddings, \* Lab 2: embeddings of the reference sequence
    df,             \* the data frame of Step 3.2 / Step 4.4
    records,        \* the SeqRecords of Step 3.3 / Step 4.5
    s3,             \* Lab 3: the FASTA objects uploaded to the bucket, by key
    runs,           \* Lab 3: the HealthOmics runs started, by run id, each
                    \* with its status and the input it has read
    structures,     \* Lab 3: list of candidate dicts
    ref_structure,  \* Lab 3: the reference AtomArray
    ref_ca,         \* Lab 3: CA atoms of the reference, as last assigned
    gen_ca,         \* Lab 3: CA atoms of the prediction, as last assigned
    min_len,        \* Lab 3: as last assigned
    rmsd_before,    \* Lab 3: as last assigned
    rmsd_after,     \* Lab 3: as last assigned
    call            \* a direct call of cosine_distance: arguments and outcome

lab2vars == <<gen_sequences, ref_embeddings>>
lab3vars == <<s3, runs, structures, ref_structure, ref_ca, gen_ca, min_len,
              rmsd_before, rmsd_after>>
vars == <<nb, pc, i, stmt, status, files, df, records, call, lab2vars, lab3vars>>

-----------------------------------------------------------------------------
(* Bounds of the model *)

\* largest number of FASTA records in the Lab 1 folder
MaxGen == 6
\* largest number of FASTA records in the file of top sequences Lab 3 reads
MaxTop == 2

-----------------------------------------------------------------------------
(* Values *)

None == [t |-> "None"]
NaN == [t |-> "nan"]
Str(s) == [t |-> "str", s |-> s]
Undefined == [t |-> "undefined"]

IsNone(v) == v.t = "None"
IsNaN(v) == v.t = "nan"

Min(a, b) == IF a <= b THEN a ELSE b

RECURSIVE SumSeq(_)
SumSeq(s) == IF s = <<>> THEN 0 ELSE Head(s) + SumSeq(Tail(s))

Sgn(x) == IF x > 0 THEN 1 ELSE IF x < 0 THEN -1 ELSE 0

\* a < b on floats: false as soon as one side is NaN (or None -> NaN)
Lt(a, b) ==
    CASE a.t = "cos" /\ b.t = "cos" ->
            \* 1 - a.uv/sqrt(a.w) < 1 - b.uv/sqrt(b.w)
            Sgn(b.uv) * b.uv * b.uv * a.w < Sgn(a.uv) * a.uv * a.uv * b.w
      [] a.t = "rmsd" /\ b.t = "rmsd" ->
            \* sqrt(a.sq/a.n) < sqrt(b.sq/b.n)
            a.sq * b.n < b.sq * a.n
      [] OTHER -> FALSE

-----------------------------------------------------------------------------
(* Lab 2, Step 2.1 and 2.3: the inputs and the embedding endpoint *)

\* the records a FASTA file of the labs can hold; two of them carry the
\* same sequence under different ids
Rec(id, seq, desc) == [id |-> id, seq |-> seq, description |-> desc]

FastaRecords ==
    { Rec("p1", <<"A", "G">>, "p1 gen"),
      Rec("p2", <<"A", "G">>, "p2 gen"),
      Rec("p3", <<"A">>, "p3 gen") }

\* ./data/reference.fasta
ReferenceSequence == <<"A", "A", "G">>

RECURSIVE SeqsUpTo(_, _)
SeqsUpTo(S, n) ==
    IF n = 0 THEN {<<>>}
    ELSE LET shorter == SeqsUpTo(S, n - 1)
         IN  shorter \cup { Append(s, x) : s \in {q \in shorter : Len(q) = n - 1}, x \in S }

\* the AMPLIFY endpoint: one row per token, a begin and an end token around
\* the residues; output['embeddings'] has shape (1, L, D)
TokenRow(tok) ==
    CASE tok = "A" -> <<1, 0>>
      [] tok = "G" -> <<0, 1>>
      [] tok = "BOS" -> <<3, 3>>
      [] tok = "EOS" -> <<5, 1>>
      [] OTHER -> <<0, 0>>

NdArray(rows, dim) ==
    [t |-> "ndarray", shape |-> <<1, Len(rows), dim>>, data |-> rows]

PredictEmbeddings(sequence) ==
    LET toks == <<"BOS">> \o sequence \o <<"EOS">>
    IN  NdArray([k \in 1..Len(toks) |-> TokenRow(toks[k])], Len(TokenRow("BOS")))

-----------------------------------------------------------------------------
(* Lab 2, Step 3.1: cosine_distance *)

\* (a slip: embeddings[:, 1:, :], the last position kept)
SliceFromSecond(e) ==
    LET L == e.shape[2]
    IN  NdArray(SubSeq(e.data, 2, L), e.shape[3])

\* embeddings[:, 1:-1, :]
SliceInner(e) ==
    LET L == e.shape[2]
    IN  NdArray(SubSeq(e.data, 2, L - 1), e.shape[3])

\* a.mean(axis=1): one vector of shape[3] entries, each the column sum over
\* the rows divided by the number of rows (0/0 = NaN when there is no row)
MeanAxis1(a) ==
    [t |-> "vector",
     den |-> a.shape[2],
     num |-> [d \in 1..a.shape[3] |->
                SumSeq([p \in 1..Len(a.data) |-> a.data[p][d]])]]

RECURSIVE Flatten(_)
Flatten(rows) == IF rows = <<>> THEN <<>> ELSE Head(rows) \o Flatten(Tail(rows))

\* a.ravel()
Ravel(a) ==
    IF a.t = "vector" THEN a
    ELSE [t |-> "vector", den |-> 1, num |-> Flatten(a.data)]

Dot(u, v) == SumSeq([d \in 1..Len(u.num) |-> u.num[d] * v.num[d]])

Returned(v) == [raised |-> "none", value |-> v]
Raised(e) == [raised |-> e, value |-> None]

\* scipy.spatial.distance.cosine(u, v) = 1 - u.v / sqrt(u.u * v.v)
ScipyCosine(u, v) ==
    IF Len(u.num) # Len(v.num) THEN Raised("ValueError")
    ELSE IF Len(u.num) > 0 /\ (u.den = 0 \/ v.den = 0) THEN Returned(NaN)
    ELSE LET uv == Dot(u, v)
             w == Dot(u, u) * Dot(v, v)
         IN  IF w = 0 THEN Returned(NaN)
             ELSE Returned([t |-> "cos", uv |-> uv, w |-> w])

\* the vector cosine_distance hands to scipy for one of its arguments:
\* embeddings[:, 1:-1, :].mean(axis=1).ravel() with mean pooling,
\* embeddings.ravel() without
Flattened(embeddings, mean_pooling) ==
    IF mean_pooling THEN Ravel(MeanAxis1(SliceInner(embeddings)))
    ELSE Ravel(embeddings)

\* (a slip: a missing embedding gives nan instead of raising)
cosine_distance_lenient(embeddings1, embeddings2, mean_pooling) ==
    IF IsNone(embeddings1) \/ IsNone(embeddings2)
    THEN Returned(NaN)
    ELSE ScipyCosine(Flattened(embeddings1, mean_pooling),
                     Flattened(embeddings2, mean_pooling))

cosine_distance(embeddings1, embeddings2, mean_pooling) ==
    IF IsNone(embeddings1) \/ IsNone(embeddings2)
    THEN Raised(IF mean_pooling THEN "TypeError" ELSE "AttributeError")
    ELSE ScipyCosine(Flattened(embeddings1, mean_pooling),
                     Flattened(embeddings2, mean_pooling))

-----------------------------------------------------------------------------
(* Step 3.2 / 4.4 and Step 3.3 / 4.5: data frame, sort, head *)

\* pd.DataFrame(list of dicts): a score column that holds a float becomes a
\* float column and its None entries NaN; a column of None only stays as is
FrameScore(rows, by, k) ==
    IF IsNone(rows[k][by]) /\ \E j \in 1..Len(rows) : ~IsNone(rows[j][by])
    THEN NaN ELSE rows[k][by]

IsNA(v) == IsNone(v) \/ IsNaN(v)

\* the index orders numpy's argsort(kind='quicksort') can return for the
\* positions S: non-decreasing keys, equal keys in no guaranteed order
RECURSIVE ArgsortOutcomes(_, _)
ArgsortOutcomes(S, key) ==
    IF S = {} THEN {<<>>}
    ELSE UNION { { <<m>> \o rest : rest \in ArgsortOutcomes(S \ {m}, key) } :
                 m \in { x \in S : \A o \in S : ~Lt(key[o], key[x]) } }

RECURSIVE Ascending(_)
Ascending(S) ==
    IF S = {} THEN <<>>
    ELSE LET m == CHOOSE x \in S : \A o \in S : x <= o
         IN  <<m>> \o Ascending(S \ {m})

\* pandas nargsort, ascending, na_position='last': the non-NA positions in
\* argsort order, then the NA positions in their original order
SortValuesOutcomes(rows, by) ==
    LET key == [k \in 1..Len(rows) |-> FrameScore(rows, by, k)]
        na == { k \in 1..Len(rows) : IsNA(key[k]) }
    IN  { [p \in 1..Len(rows) |-> [rows[(ix \o Ascending(na))[p]]
                                      EXCEPT ![by] = key[(ix \o Ascending(na))[p]]]] :
          ix \in ArgsortOutcomes((1..Len(rows)) \ na, key) }

\* df.head(k)
HeadRows(rows, k) == SubSeq(rows, 1, Min(k, Len(rows)))

\* head(5) of Step 3.3
TopSequences == 5

\* SeqRecord(Seq(row.sequence), id=prompt_id,
\*           description=f'{row.description},<by>={row.<by>}')
SeqRecordOf(row, by) ==
    [id |-> row.prompt_id, seq |-> row.sequence,
     description |-> <<row.description, by, row[by]>>]

-----------------------------------------------------------------------------
(* Lab 2 cells *)

Lab2Cells == <<"2.1", "2.3", "3.1", "3.2", "3.3", "end">>

NextCell(cells, c) ==
    LET k == CHOOSE j \in 1..Len(cells) : cells[j] = c IN cells[k + 1]

\* the running cell ends, normally ("ok") or with an exception
Finish(cells, outcome) ==
    /\ status' = [status EXCEPT ![pc] = outcome]
    /\ pc' = NextCell(cells, pc)
    /\ i' = 1

\* Step 2.1: load the reference sequence and the generated sequences
Lab2_Step2_1 ==
    /\ nb = "lab2" /\ pc = "2.1"
    /\ ref_embeddings' = None
    /\ gen_sequences' =
          [k \in 1..Len(files.lab1) |->
              [prompt_id |-> files.lab1[k].id,
               sequence |-> files.lab1[k].seq,
               description |-> files.lab1[k].description,
               embeddings |-> None,
               distance |-> None,
               distance_type |-> None]]
    /\ Finish(Lab2Cells, "ok")
    /\ UNCHANGED <<nb, stmt, files, df, records, call, lab3vars>>

\* Step 2.3, first statement: embeddings of the reference sequence
Lab2_Step2_3_Ref ==
    /\ nb = "lab2" /\ pc = "2.3" /\ i = 1 /\ IsNone(ref_embeddings)
    /\ status["2.3"] = "notrun"
    /\ \/ /\ ref_embeddings' = PredictEmbeddings(ReferenceSequence)
          /\ UNCHANGED <<pc, i, status>>
       \/ /\ Finish(Lab2Cells, "ModelError")
          /\ UNCHANGED ref_embeddings
    /\ UNCHANGED <<nb, stmt, files, gen_sequences, df, records, call, lab3vars>>

\* Step 2.3, one turn of the loop over gen_sequences
Lab2_Step2_3_Loop ==
    /\ nb = "lab2" /\ pc = "2.3" /\ ~IsNone(ref_embeddings)
    /\ i <= Len(gen_sequences)
    /\ \/ /\ gen_sequences' =
                [gen_sequences EXCEPT
                    ![i].embeddings = PredictEmbeddings(gen_sequences[i].sequence)]
          /\ i' = i + 1
          /\ UNCHANGED <<pc, status>>
       \/ /\ Finish(Lab2Cells, "ModelError")
          /\ UNCHANGED gen_sequences
    /\ UNCHANGED <<nb, stmt, files, ref_embeddings, df, records, call, lab3vars>>

Lab2_Step2_3_End ==
    /\ nb = "lab2" /\ pc = "2.3" /\ ~IsNone(ref_embeddings)
    /\ i > Len(gen_sequences)
    /\ Finish(Lab2Cells, "ok")
    /\ UNCHANGED <<nb, stmt, files, df, records, call, lab2vars, lab3vars>>

\* Step 3.1, one turn of the loop over gen_sequences
Lab2_Step3_1_Loop ==
    /\ nb = "lab2" /\ pc = "3.1" /\ i <= Len(gen_sequences)
    /\ LET r == cosine_distance(gen_sequences[i].embeddings, ref_embeddings, TRUE)
       IN  IF r.raised = "none"
           THEN /\ gen_sequences' =
                      [gen_sequences EXCEPT ![i].distance = r.value,
                                            ![i].distance_type = Str("cosine")]
                /\ i' = i + 1
                /\ UNCHANGED <<pc, status>>
           ELSE /\ Finish(Lab2Cells, r.raised)
                /\ UNCHANGED gen_sequences
    /\ UNCHANGED <<nb, stmt, files, ref_embeddings, df, records, call, lab3vars>>

Lab2_Step3_1_End ==
    /\ nb = "lab2" /\ pc = "3.1" /\ i > Len(gen_sequences)
    /\ Finish(Lab2Cells, "ok")
    /\ UNCHANGED <<nb, stmt, files, df, records, call, lab2vars, lab3vars>>

\* Step 3.2 / Step 4.4: df = pd.DataFrame(rows); df.set_index('prompt_id');
\* df = df.sort_values(by=by, ascending=True)
SortCell(cells, rows, by) ==
    IF rows = <<>>
    THEN \* a frame without columns: set_index raises, df stays the empty frame
         /\ df' = [t |-> "DataFrame", rows |-> <<>>]
         /\ Finish(cells, "KeyError")
    ELSE /\ \E sorted \in SortValuesOutcomes(rows, by) :
                df' = [t |-> "DataFrame", rows |-> sorted]
         /\ Finish(cells, "ok")

Lab2_Step3_2 ==
    /\ nb = "lab2" /\ pc = "3.2"
    /\ SortCell(Lab2Cells, gen_sequences, "distance")
    /\ UNCHANGED <<nb, stmt, files, records, call, lab2vars, lab3vars>>

\* Step 3.3: the five top rows as SeqRecords, written to the Lab 2 FASTA file
Lab2_Step3_3 ==
    /\ nb = "lab2" /\ pc = "3.3"
    /\ records' = [k \in 1..Min(TopSequences, Len(df.rows)) |->
                      SeqRecordOf(HeadRows(df.rows, TopSequences)[k], "distance")]
    /\ files' = [files EXCEPT !.lab2_top = records']
    /\ Finish(Lab2Cells, "ok")
    /\ UNCHANGED <<nb, stmt, df, call, lab2vars, lab3vars>>

Lab2Next ==
    \/ Lab2_Step2_1
    \/ Lab2_Step2_3_Ref
    \/ Lab2_Step2_3_Loop
    \/ Lab2_Step2_3_End
    \/ Lab2_Step3_1_Loop
    \/ Lab2_Step3_1_End
    \/ Lab2_Step3_2
    \/ Lab2_Step3_3

-----------------------------------------------------------------------------
(* Lab 3: structures.  The model's structures lie on one axis: an atom is  *)
(* a name and one coordinate, kept as the integer x of x/den with den      *)
(* shared by the array.  On such sets the optimal rotation is the identity *)
(* or the half-turn, whichever the sign of the covariance asks for.        *)
(* These operators stand for biotite's rmsd and superimpose, in exact      *)
(* arithmetic: they carry what the notebook does with the values           *)
(* (selection, truncation, storage, order), not the rounding of the        *)
(* library's float32 computation in space.                                 *)

Atom(name, x) == [atom_name |-> name, x |-> x]
AtomArray(atoms) == [t |-> "AtomArray", den |-> 1, atoms |-> atoms]
Residue(ca) == <<Atom("N", ca - 1), Atom("CA", ca), Atom("C", ca + 1)>>

\* the contents ./data/reference.pdb can have
ReferenceStructures ==
    { AtomArray(Residue(0) \o Residue(3) \o Residue(5)),
      AtomArray(Residue(5) \o Residue(3)),
      AtomArray(<<Atom("N", 0), Atom("C", 1)>>) }

\* the records the FASTA file of Lab 2's top sequences can hold; two of
\* them carry the same sequence under different ids, two of them different
\* sequences under the same id
TopRecords ==
    { Rec("p1", <<"A", "G">>, "p1 gen,distance=0.1"),
      Rec("p2", <<"A", "G">>, "p2 gen,distance=0.1"),
      Rec("p1", <<"G", "A", "A">>, "p1 gen 2,distance=0.2"),
      Rec("p4", <<"X">>, "p4 gen,distance=0.3") }

ObjectKeys == { r.id : r \in TopRecords }

\* the ESMFold workflow: prediction.pdb of a run, from the sequence it read;
\* a residue the model does not know gets no backbone
ResidueAtoms(letter, k) ==
    CASE letter = "A" -> Residue(2 * k)
      [] letter = "G" -> Residue(7 - 2 * k)
      [] OTHER -> <<Atom("O", k)>>

PredictStructure(sequence) ==
    AtomArray(Flatten([k \in 1..Len(sequence) |-> ResidueAtoms(sequence[k], k)]))

ArrayLength(a) == Len(a.atoms)

\* array[array.atom_name == 'CA']
SelectCA(array) ==
    LET IsCA(a) == a.atom_name = "CA"
    IN  [array EXCEPT !.atoms = SelectSeq(@, IsCA)]

\* (a slip: array[-n:], the last n atoms)
TruncateTail(array, n) ==
    [array EXCEPT !.atoms = SubSeq(@, Len(@) - n + 1, Len(@))]

\* array[:n]
Truncate(array, n) == [array EXCEPT !.atoms = SubSeq(@, 1, n)]

\* struct.rmsd(reference, subject): sqrt(mean of squared distances)
Rmsd(reference, subject) ==
    LET n == ArrayLength(reference)
    IN  IF ArrayLength(subject) # n THEN Raised("ValueError")
        ELSE IF n = 0 \/ reference.den = 0 \/ subject.den = 0 THEN Returned(NaN)
        ELSE Returned(
                [t |-> "rmsd",
                 sq |-> SumSeq([k \in 1..n |->
                           (reference.atoms[k].x * subject.den
                              - subject.atoms[k].x * reference.den)
                           * (reference.atoms[k].x * subject.den
                              - subject.atoms[k].x * reference.den)]),
                 n |-> n * reference.den * reference.den
                         * subject.den * subject.den])

SumX(a) == SumSeq([k \in 1..ArrayLength(a) |-> a.atoms[k].x])

\* the rotation of superimpose: from the SVD of the covariance of the
\* centred sets; here its sign (n * sum f*m - sum f * sum m, times n)
Covariance(fixed, mobile) ==
    ArrayLength(fixed)
        * SumSeq([k \in 1..ArrayLength(fixed) |-> fixed.atoms[k].x * mobile.atoms[k].x])
    - SumX(fixed) * SumX(mobile)

Rotation(fixed, mobile) == IF Covariance(fixed, mobile) < 0 THEN -1 ELSE 1

\* AffineTransformation(-centroid(mobile), rotation, centroid(fixed));
\* a centroid is sum/n, NaN when n = 0
Transformation(fixed, mobile) ==
    [t |-> "AffineTransformation",
     n |-> ArrayLength(mobile),
     center |-> SumX(mobile),
     rot |-> Rotation(fixed, mobile),
     target |-> SumX(fixed)]

\* transform.apply(array): x -> rot * (x - center/n) + target/n
Apply(transform, array) ==
    [array EXCEPT
        !.den = transform.n * array.den,
        !.atoms = [k \in 1..Len(array.atoms) |->
                     [array.atoms[k] EXCEPT !.x =
                         transform.rot * (transform.n * @ - transform.center * array.den)
                         + transform.target * array.den]]]

\* struct.superimpose(fixed, mobile) -> (fitted, transform)
Superimpose(fixed, mobile) ==
    IF ArrayLength(fixed) # ArrayLength(mobile) THEN Raised("ValueError")
    ELSE Returned([fitted |-> Apply(Transformation(fixed, mobile), mobile),
                   transform |-> Transformation(fixed, mobile)])

\* head(3) of Step 4.5
TopStructures == 3

-----------------------------------------------------------------------------
(* Lab 3 cells.  Step 3.3 (print the run status), 4.2 and 4.6 (views)      *)
(* assign nothing the later cells read.  The runs started by Step 3.2 go   *)
(* on by themselves, at any time between the cells and the loop turns.     *)

Lab3Cells == <<"3.2", "4.1", "4.3", "4.4", "4.5", "end">>

\* Step 3.2, the loop over the records of Lab 2's top file.  One turn is
\* three steps: write and upload <record.id>.fasta; after the ten seconds
\* of sleep, start a run on that key; append the candidate.  The runs
\* already started go on in between.

\* with open(...): SeqIO.write(record, f, "fasta"); !aws s3 cp ...
\* (a shell command that fails raises nothing: the object is then not
\* written and the cell goes on)
Lab3_Step3_2_Upload ==
    /\ nb = "lab3" /\ pc = "3.2" /\ stmt = "upload"
    /\ i <= Len(files.lab2_top)
    /\ LET record == files.lab2_top[i]
       IN  \/ s3' = [s3 EXCEPT ![record.id] = [t |-> "object", body |-> record]]
           \/ UNCHANGED s3
    /\ stmt' = "start_run"
    /\ UNCHANGED <<nb, pc, i, status, files, df, records, call, lab2vars,
                   runs, structures, ref_structure, ref_ca, gen_ca, min_len,
                   rmsd_before, rmsd_after>>

\* time.sleep(10); response = omics.start_run(...)
Lab3_Step3_2_StartRun ==
    /\ nb = "lab3" /\ pc = "3.2" /\ stmt = "start_run"
    /\ LET record == files.lab2_top[i]
       IN  \/ /\ runs' = Append(runs, [name |-> record.id,
                                       fasta_path |-> record.id,
                                       status |-> "PENDING",
                                       input |-> None,
                                       exported |-> FALSE])
              /\ stmt' = "append"
              /\ UNCHANGED <<pc, i, status>>
           \/ \* the service refuses the request
              /\ Finish(Lab3Cells, "ClientError")
              /\ stmt' = "upload"
              /\ UNCHANGED runs
    /\ UNCHANGED <<nb, files, df, records, call, lab2vars,
                   s3, structures, ref_structure, ref_ca, gen_ca, min_len,
                   rmsd_before, rmsd_after>>

\* run_id = response['id']; structures.append({...})
Lab3_Step3_2_Append ==
    /\ nb = "lab3" /\ pc = "3.2" /\ stmt = "append"
    /\ LET record == files.lab2_top[i]
           run_id == Len(runs)
       IN  structures' = Append(structures,
                 [run_id |-> run_id,
                  prompt_id |-> record.id,
                  sequence |-> record.seq,
                  description |-> record.description,
                  transform |-> None,
                  rmsd |-> None])
    /\ i' = i + 1
    /\ stmt' = "upload"
    /\ UNCHANGED <<nb, pc, status, files, df, records, call, lab2vars,
                   s3, runs, ref_structure, ref_ca, gen_ca, min_len,
                   rmsd_before, rmsd_after>>

Lab3_Step3_2_End ==
    /\ nb = "lab3" /\ pc = "3.2" /\ stmt = "upload"
    /\ i > Len(files.lab2_top)
    /\ Finish(Lab3Cells, "ok")
    /\ UNCHANGED <<nb, stmt, files, df, records, call, lab2vars, lab3vars>>

\* The life of a HealthOmics run, as get_run reports it in 'status':
\* PENDING, STARTING, RUNNING, STOPPING, then COMPLETED; FAILED or CANCELLED
\* from any of the first four.  Nothing in the notebook drives it.

\* the service picks the run up
Run_Starts ==
    /\ nb = "lab3"
    /\ \E id \in 1..Len(runs) :
          /\ runs[id].status = "PENDING"
          /\ runs' = [runs EXCEPT ![id].status = "STARTING"]
    /\ UNCHANGED <<nb, stmt, pc, i, status, files, df, records, call, lab2vars,
                   s3, structures, ref_structure, ref_ca, gen_ca, min_len,
                   rmsd_before, rmsd_after>>

\* A run takes its input: it reads the object its fasta_path names, as the
\* object is at that moment, and fails if there is none.
Run_ReadsInput ==
    /\ nb = "lab3"
    /\ \E id \in 1..Len(runs) :
          /\ runs[id].status = "STARTING"
          /\ runs' = IF IsNone(s3[runs[id].fasta_path])
                     THEN [runs EXCEPT ![id].status = "FAILED"]
                     ELSE [runs EXCEPT ![id].status = "RUNNING",
                                       ![id].input = s3[runs[id].fasta_path]]
    /\ UNCHANGED <<nb, stmt, pc, i, status, files, df, records, call, lab2vars,
                   s3, structures, ref_structure, ref_ca, gen_ca, min_len,
                   rmsd_before, rmsd_after>>

\* the task has finished: the run stops
Run_Stops ==
    /\ nb = "lab3"
    /\ \E id \in 1..Len(runs) :
          /\ runs[id].status = "RUNNING"
          /\ runs' = [runs EXCEPT ![id].status = "STOPPING"]
    /\ UNCHANGED <<nb, stmt, pc, i, status, files, df, records, call, lab2vars,
                   s3, structures, ref_structure, ref_ca, gen_ca, min_len,
                   rmsd_before, rmsd_after>>

\* a stopping run exports its prediction under outputUri
Run_Exports ==
    /\ nb = "lab3"
    /\ \E id \in 1..Len(runs) :
          /\ runs[id].status = "STOPPING"
          /\ ~runs[id].exported
          /\ runs' = [runs EXCEPT ![id].exported = TRUE]
    /\ UNCHANGED <<nb, stmt, pc, i, status, files, df, records, call, lab2vars,
                   s3, structures, ref_structure, ref_ca, gen_ca, min_len,
                   rmsd_before, rmsd_after>>

\* the export done, the run is reported completed
Run_Completes ==
    /\ nb = "lab3"
    /\ \E id \in 1..Len(runs) :
          /\ runs[id].status = "STOPPING"
          /\ runs[id].exported
          /\ runs' = [runs EXCEPT ![id].status = "COMPLETED"]
    /\ UNCHANGED <<nb, stmt, pc, i, status, files, df, records, call, lab2vars,
                   s3, structures, ref_structure, ref_ca, gen_ca, min_len,
                   rmsd_before, rmsd_after>>

\* a run that has not exported anything fails or is cancelled
Run_Ends ==
    /\ nb = "lab3"
    /\ \E id \in 1..Len(runs), end \in {"FAILED", "CANCELLED"} :
          /\ runs[id].status \in {"PENDING", "STARTING", "RUNNING", "STOPPING"}
          /\ ~runs[id].exported
          /\ runs' = [runs EXCEPT ![id].status = end]
    /\ UNCHANGED <<nb, stmt, pc, i, status, files, df, records, call, lab2vars,
                   s3, structures, ref_structure, ref_ca, gen_ca, min_len,
                   rmsd_before, rmsd_after>>

\* s3://<bucket>/lab3-esmfold/results/<run_id>/out/pdb/prediction.pdb
RunOutput(run) ==
    IF run.exported THEN PredictStructure(run.input.body.seq) ELSE None

\* Step 4.1: !aws s3 cp s3://.../results ./data/.../results --recursive
\* copies what is under results/ in the bucket to ./data.  The command can
\* fail, at once or part of the way; a shell command that fails raises
\* nothing, so the cell ends normally with the files copied so far.
Lab3_Step4_1 ==
    /\ nb = "lab3" /\ pc = "4.1"
    /\ \E copied \in SUBSET { id \in 1..Len(runs) : ~IsNone(RunOutput(runs[id])) } :
          files' = [files EXCEPT !.results =
                       [id \in 1..Len(runs) |->
                           IF id \in copied THEN RunOutput(runs[id]) ELSE None]]
    /\ Finish(Lab3Cells, "ok")
    /\ UNCHANGED <<nb, stmt, df, records, call, lab2vars, lab3vars>>

\* ./data/lab3-esmfold/results/<run_id>/out/pdb/prediction.pdb is there
HasPredictionFile(run_id) ==
    run_id \in 1..Len(files.results) /\ ~IsNone(files.results[run_id])

\* Step 4.3, first statement: read the reference structure
Lab3_Step4_3_Ref ==
    /\ nb = "lab3" /\ pc = "4.3" /\ ref_structure = Undefined
    /\ ref_structure' = files.reference_pdb
    /\ UNCHANGED <<nb, stmt, pc, i, status, files, df, records, call, lab2vars,
                   s3, runs, structures, ref_ca, gen_ca, min_len,
                   rmsd_before, rmsd_after>>

\* (a slip: the CA atoms of the reference selected once and then reused,
\* so that ref_ca = ref_ca[:min_len] shortens them for good)
ReferenceCAKept ==
    IF ref_ca = Undefined THEN SelectCA(ref_structure) ELSE ref_ca

\* ref_ca = ref_structure[ref_structure.atom_name == 'CA']
ReferenceCA == SelectCA(ref_structure)

\* the body of the loop of Step 4.3 from the CA selection on: what it
\* assigns, given the CA atoms of the reference and the predicted structure
ScoreStructure(all_ref_ca, gen_structure) ==
    LET all_gen_ca == SelectCA(gen_structure)
        len == Min(ArrayLength(all_ref_ca), ArrayLength(all_gen_ca))
        cut_ref_ca == Truncate(all_ref_ca, len)
        cut_gen_ca == Truncate(all_gen_ca, len)
        fit == Superimpose(cut_ref_ca, cut_gen_ca).value
    IN  [min_len |-> len,
         ref_ca |-> cut_ref_ca,
         gen_ca |-> cut_gen_ca,
         rmsd_before |-> Rmsd(cut_ref_ca, cut_gen_ca).value,
         transform |-> fit.transform,
         rmsd_after |-> Rmsd(cut_ref_ca, fit.fitted).value]

\* Step 4.3, one turn of the loop over structures
Lab3_Step4_3_Loop ==
    /\ nb = "lab3" /\ pc = "4.3" /\ ref_structure # Undefined
    /\ i <= Len(structures)
    /\ \/ \* results/<run_id>/out/pdb/prediction.pdb is not there
          /\ ~HasPredictionFile(structures[i].run_id)
          /\ Finish(Lab3Cells, "FileNotFoundError")
          /\ UNCHANGED <<structures, ref_ca, gen_ca, min_len, rmsd_before, rmsd_after>>
       \/ /\ HasPredictionFile(structures[i].run_id)
          /\ LET gen_structure == files.results[structures[i].run_id]
                 b == ScoreStructure(ReferenceCA, gen_structure)
             IN  /\ min_len' = b.min_len
                 /\ ref_ca' = b.ref_ca
                 /\ gen_ca' = b.gen_ca
                 /\ rmsd_before' = b.rmsd_before
                 /\ rmsd_after' = b.rmsd_after
                 /\ structures' = [structures EXCEPT
                                      ![i].transform = b.transform,
                                      ![i].rmsd = b.rmsd_after]
                 /\ i' = i + 1
                 /\ UNCHANGED <<pc, status>>
    /\ UNCHANGED <<nb, stmt, files, df, records, call, lab2vars, s3, runs, ref_structure>>

Lab3_Step4_3_End ==
    /\ nb = "lab3" /\ pc = "4.3" /\ ref_structure # Undefined
    /\ i > Len(structures)
    /\ Finish(Lab3Cells, "ok")
    /\ UNCHANGED <<nb, stmt, files, df, records, call, lab2vars, lab3vars>>

\* Step 4.4: sort by rmsd
Lab3_Step4_4 ==
    /\ nb = "lab3" /\ pc = "4.4"
    /\ SortCell(Lab3Cells, structures, "rmsd")
    /\ UNCHANGED <<nb, stmt, files, records, call, lab2vars, lab3vars>>

\* Step 4.5: the three top rows as SeqRecords, written to the Lab 3 FASTA file
Lab3_Step4_5 ==
    /\ nb = "lab3" /\ pc = "4.5"
    /\ records' = [k \in 1..Min(TopStructures, Len(df.rows)) |->
                      SeqRecordOf(HeadRows(df.rows, TopStructures)[k], "rmsd")]
    /\ files' = [files EXCEPT !.lab3_top = records']
    /\ Finish(Lab3Cells, "ok")
    /\ UNCHANGED <<nb, stmt, df, call, lab2vars, lab3vars>>

Lab3Next ==
    \/ Lab3_Step3_2_Upload
    \/ Lab3_Step3_2_StartRun
    \/ Lab3_Step3_2_Append
    \/ Lab3_Step3_2_End
    \/ Run_Starts
    \/ Run_ReadsInput
    \/ Run_Stops
    \/ Run_Exports
    \/ Run_Completes
    \/ Run_Ends
    \/ Lab3_Step4_1
    \/ Lab3_Step4_3_Ref
    \/ Lab3_Step4_3_Loop
    \/ Lab3_Step4_3_End
    \/ Lab3_Step4_4
    \/ Lab3_Step4_5

-----------------------------------------------------------------------------
(* Specification *)

NoVector == [t |-> "vector", den |-> 1, num |-> <<>>]

NoCall == [state |-> "idle", embeddings1 |-> None, embeddings2 |-> None,
           mean_pooling |-> FALSE, u |-> NoVector, v |-> NoVector,
           result |-> Returned(None)]

NoFiles == [lab1 |-> <<>>, lab2_top |-> <<>>, lab3_top |-> <<>>,
            reference_pdb |-> Undefined, results |-> <<>>]

Fresh ==
    /\ i = 1
    /\ stmt = "upload"
    /\ df = Undefined
    /\ records = <<>>
    /\ gen_sequences = <<>>
    /\ ref_embeddings = None
    /\ s3 = [key \in ObjectKeys |-> None]
    /\ runs = <<>>
    /\ structures = <<>>
    /\ ref_structure = Undefined
    /\ ref_ca = Undefined
    /\ gen_ca = Undefined
    /\ min_len = 0
    /\ rmsd_before = Undefined
    /\ rmsd_after = Undefined

Lab2Init ==
    /\ nb = "lab2"
    /\ pc = "2.1"
    /\ status = [c \in {"2.1", "2.3", "3.1", "3.2", "3.3"} |-> "notrun"]
    /\ \E lab1 \in SeqsUpTo(FastaRecords, MaxGen) :
          files = [NoFiles EXCEPT !.lab1 = lab1]

Lab3Init ==
    /\ nb = "lab3"
    /\ pc = "3.2"
    /\ status = [c \in {"3.2", "4.1", "4.3", "4.4", "4.5"} |-> "notrun"]
    /\ \E top \in SeqsUpTo(TopRecords, MaxTop), ref \in ReferenceStructures :
          files = [NoFiles EXCEPT !.lab2_top = top, !.reference_pdb = ref]

Init ==
    /\ Fresh
    /\ call = NoCall
    /\ (Lab2Init \/ Lab3Init)

Next == Lab2Next \/ Lab3Next

Spec == Init /\ [][Next]_vars

-----------------------------------------------------------------------------
(* cosine_distance called on its own: every pair of a first array of shape *)
(* (1, L, D) with L <= MaxSeqLen, D <= 2 and entries -1, 0, 1, and a       *)
(* second array among a few of each kind, with and without mean pooling.   *)

MaxSeqLen == 3

RECURSIVE Tuples(_, _)
Tuples(S, n) ==
    IF n = 0 THEN {<<>>}
    ELSE { Append(s, x) : s \in Tuples(S, n - 1), x \in S }

Arrays(maxlen) ==
    UNION { { NdArray(rows, dim) : rows \in Tuples(Tuples({-1, 0, 1}, dim), len) } :
            len \in 0..maxlen, dim \in 1..2 }

SecondArrays ==
    { NdArray(<<<<3, 3>>, <<1, 0>>, <<0, 1>>, <<5, 1>>>>, 2),
      NdArray(<<<<1, 1>>, <<1, -1>>, <<-1, 1>>, <<1, 0>>, <<2, 2>>>>, 2),
      NdArray(<<<<1, 1>>, <<0, 0>>, <<1, 1>>>>, 2),
      NdArray(<<<<1, 2>>, <<2, 1>>>>, 2),
      NdArray(<<<<1>>, <<-2>>, <<1>>>>, 1),
      NdArray(<<<<0, 1>>>>, 2) }

CosineInit ==
    /\ Fresh
    /\ nb = "none"
    /\ pc = "end"
    /\ status = [c \in {} |-> "notrun"]
    /\ files = NoFiles
    /\ \E e1 \in Arrays(MaxSeqLen), e2 \in SecondArrays, mp \in BOOLEAN :
          call = [NoCall EXCEPT !.state = "pending", !.embeddings1 = e1,
                                !.embeddings2 = e2, !.mean_pooling = mp]

CallCosine ==
    /\ call.state = "pending"
    /\ call' = [call EXCEPT
                   !.state = "returned",
                   !.u = Flattened(call.embeddings1, call.mean_pooling),
                   !.v = Flattened(call.embeddings2, call.mean_pooling),
                   !.result = cosine_distance(call.embeddings1, call.embeddings2,
                                              call.mean_pooling)]
    /\ UNCHANGED <<nb, stmt, pc, i, status, files, df, records, lab2vars, lab3vars>>

CosineNext == CallCosine

SpecCosine == CosineInit /\ [][CosineNext]_vars

-----------------------------------------------------------------------------
(* Properties of the selection: Step 3.2 / 3.3 of Lab 2, 4.4 / 4.5 of Lab 3 *)

InNotebook == nb \in {"lab2", "lab3"}
Candidates == IF nb = "lab2" THEN gen_sequences ELSE structures
ScoreColumn == IF nb = "lab2" THEN "distance" ELSE "rmsd"
TopK == IF nb = "lab2" THEN TopSequences ELSE TopStructures
SortCellName == IF nb = "lab2" THEN "3.2" ELSE "4.4"
SelectCellName == IF nb = "lab2" THEN "3.3" ELSE "4.5"

SortRan == InNotebook /\ status[SortCellName] # "notrun"
SelectionRan == InNotebook /\ status[SelectCellName] # "notrun"

AllScored == \A j \in 1..Len(Candidates) : ~IsNone(Candidates[j][ScoreColumn])

\* the score written into the description of an output record
RecordScore(r) == r.description[3]

\* the candidates whose score is strictly below s
StrictlyBelow(s) ==
    { j \in 1..Len(Candidates) : Lt(Candidates[j][ScoreColumn], s) }

\* C1: once the selection has run on N scored candidates, neither the sort
\* nor the selection raised, the output holds exactly min(k, N) records, each
\* a candidate, in non-decreasing score order, and every candidate with a
\* score strictly below that of an output record comes before it in the
\* output (so none of them is left out); this includes N < k and N = 0.
C1_TopKSelection ==
    (SelectionRan /\ AllScored) =>
        /\ status[SortCellName] = "ok"
        /\ status[SelectCellName] = "ok"
        /\ Len(records) = Min(TopK, Len(Candidates))
        /\ \A m \in 1..Len(records) :
              \E j \in 1..Len(Candidates) :
                  /\ records[m].id = Candidates[j].prompt_id
                  /\ records[m].seq = Candidates[j].sequence
                  /\ RecordScore(records[m]) = Candidates[j][ScoreColumn]
        /\ \A a, b \in 1..Len(records) :
              a < b => ~Lt(RecordScore(records[b]), RecordScore(records[a]))
        /\ \A m \in 1..Len(records) :
              Cardinality(StrictlyBelow(RecordScore(records[m]))) <= m - 1

\* The same with at least one candidate: what the cells do deliver.
TopKSelectionOfSome ==
    Len(Candidates) > 0 => C1_TopKSelection

\* rows of the frame before the sort: the candidates, None scores as NaN
\* where pandas makes them so
FrameRows ==
    [k \in 1..Len(Candidates) |->
        [Candidates[k] EXCEPT ![ScoreColumn] = FrameScore(Candidates, ScoreColumn, k)]]

Tied(a, b) == ~IsNA(a) /\ ~IsNA(b) /\ ~Lt(a, b) /\ ~Lt(b, a)

\* the rows of a frame whose score ties with s, in the order of the frame
TiedWith(rows, s) ==
    LET Same(r) == Tied(r[ScoreColumn], s) IN SelectSeq(rows, Same)

\* C2: the sort is stable: the candidates that share a score stand in the
\* sorted frame in the order in which they were appended to the list.
C2_StableSort ==
    (SortRan /\ status[SortCellName] = "ok") =>
        \A k \in 1..Len(df.rows) :
            TiedWith(df.rows, df.rows[k][ScoreColumn])
                = TiedWith(FrameRows, df.rows[k][ScoreColumn])

\* a row of the frame that belongs to a candidate no scoring step reached
Unscored(row) ==
    IF nb = "lab2" THEN IsNone(row.distance_type) ELSE IsNone(row.transform)

\* C3: a candidate without a score never reaches the output: whenever the
\* selection has produced records, none of them was built from a row whose
\* score was still None.
C3_UnscoredExcluded ==
    (SelectionRan /\ status[SelectCellName] = "ok") =>
        \A m \in 1..Len(records) : ~Unscored(HeadRows(df.rows, TopK)[m])

-----------------------------------------------------------------------------
(* Properties of the structural scoring: Step 4.3 of Lab 3 *)

\* the positions of the atoms named CA, and the k-th of these atoms
CAPositions(atoms) == { p \in 1..Len(atoms) : atoms[p].atom_name = "CA" }
CACount(array) == Cardinality(CAPositions(array.atoms))
NthCA(atoms, k) ==
    atoms[CHOOSE p \in CAPositions(atoms) :
            Cardinality({ q \in CAPositions(atoms) : q <= p }) = k]

\* the prediction file of candidate j, once Step 4.1 has fetched it
HasPrediction(j) == HasPredictionFile(structures[j].run_id)
Prediction(j) == files.results[structures[j].run_id]

\* the candidates Step 4.3 has gone through, and the last of them
ScoredSet == { j \in 1..Len(structures) : ~IsNone(structures[j].transform) }
LastScored == CHOOSE j \in ScoredSet : \A o \in ScoredSet : o <= j

\* sqrt(mean of squared distances) of two sets paired by position
PairedRmsd(a, b) ==
    IF Len(a) = 0 THEN NaN
    ELSE [t |-> "rmsd",
          sq |-> SumSeq([k \in 1..Len(a) |-> (a[k].x - b[k].x) * (a[k].x - b[k].x)]),
          n |-> Len(a)]

\* C4: a candidate whose structure, or whose reference, has no atom named
\* CA is never given a transform or an rmsd, and Step 4.3 does not end
\* normally when there is such a candidate.
C4_NoCARaises ==
    nb = "lab3" =>
        /\ \A j \in 1..Len(structures) :
              (HasPrediction(j) /\
                  (CACount(files.reference_pdb) = 0 \/ CACount(Prediction(j)) = 0))
                  => IsNone(structures[j].transform) /\ IsNone(structures[j].rmsd)
        /\ status["4.3"] = "ok" =>
              \A j \in 1..Len(structures) :
                  /\ HasPrediction(j)
                  /\ CACount(files.reference_pdb) > 0
                  /\ CACount(Prediction(j)) > 0

\* C5: after a candidate has been scored, min_len is the smaller of the two
\* CA counts, ref_ca and gen_ca hold exactly the first min_len CA atoms of
\* the reference and of the prediction in file order, and the RMSD before,
\* the transform and the RMSD after are those of these two sets paired by
\* position.
C5_Truncation ==
    (nb = "lab3" /\ ScoredSet # {}) =>
        LET R == ref_structure.atoms
            G == Prediction(LastScored).atoms
        IN  /\ min_len = Min(Cardinality(CAPositions(R)), Cardinality(CAPositions(G)))
            /\ Len(ref_ca.atoms) = min_len
            /\ Len(gen_ca.atoms) = min_len
            /\ \A k \in 1..min_len :
                  /\ ref_ca.atoms[k] = NthCA(R, k)
                  /\ gen_ca.atoms[k] = NthCA(G, k)
            /\ rmsd_before = PairedRmsd(ref_ca.atoms, gen_ca.atoms)
            /\ structures[LastScored].transform = Transformation(ref_ca, gen_ca)
            /\ rmsd_after = Rmsd(ref_ca, Apply(structures[LastScored].transform, gen_ca)).value

\* a candidate was scored against a reference with more CA atoms than it has
C5_Witness ==
    /\ nb = "lab3" /\ ScoredSet # {}
    /\ min_len > 0
    /\ CACount(ref_structure) > CACount(Prediction(LastScored))

\* the RMSD before superposition of candidate j
BeforeOf(j) ==
    ScoreStructure(SelectCA(files.reference_pdb), Prediction(j)).rmsd_before

\* a <= b on floats: false as soon as one side is NaN
Le(a, b) ==
    /\ a.t = "rmsd" /\ b.t = "rmsd"
    /\ a.sq * b.n <= b.sq * a.n

\* C8: for every scored candidate the rmsd stored is less than or equal to
\* the RMSD before superposition of the same truncated CA sets, and after
\* each turn of the loop the rmsd stored is rmsd_after, itself less than or
\* equal to rmsd_before.
C8_SuperpositionNotWorse ==
    nb = "lab3" =>
        /\ \A j \in ScoredSet : Le(structures[j].rmsd, BeforeOf(j))
        /\ ScoredSet # {} =>
              /\ structures[LastScored].rmsd = rmsd_after
              /\ rmsd_before = BeforeOf(LastScored)
              /\ Le(rmsd_after, rmsd_before)

-----------------------------------------------------------------------------
(* Properties of the candidate records *)

\* C9: in Lab 2 a candidate has a distance only if it has embeddings, its
\* distance_type is 'cosine' exactly when it has a distance, after the
\* scoring loop has run to its end every candidate has embeddings, distance
\* and distance_type, and prompt_id, sequence and description stay what
\* Step 2.1 loaded.
C9_Lifecycle ==
    nb = "lab2" =>
        /\ \A j \in 1..Len(gen_sequences) :
              LET g == gen_sequences[j]
              IN  /\ ~IsNone(g.distance) => ~IsNone(g.embeddings)
                  /\ g.distance_type \in {None, Str("cosine")}
                  /\ g.distance_type = Str("cosine") <=> ~IsNone(g.distance)
        /\ status["3.1"] = "ok" =>
              \A j \in 1..Len(gen_sequences) :
                  /\ ~IsNone(gen_sequences[j].embeddings)
                  /\ ~IsNone(gen_sequences[j].distance)
                  /\ gen_sequences[j].distance_type = Str("cosine")
        /\ status["2.1"] = "ok" =>
              /\ Len(gen_sequences) = Len(files.lab1)
              /\ \A j \in 1..Len(gen_sequences) :
                    /\ gen_sequences[j].prompt_id = files.lab1[j].id
                    /\ gen_sequences[j].sequence = files.lab1[j].seq
                    /\ gen_sequences[j].description = files.lab1[j].description

\* the scoring loop has finished over several candidates
C9_Witness ==
    /\ nb = "lab2"
    /\ status["3.1"] = "ok"
    /\ Len(gen_sequences) >= 2

\* C10: the score of a candidate is a function of its own embedding or
\* structure and of the reference as loaded: in Lab 2 the distance is the
\* cosine distance of the candidate's embeddings to those of the reference
\* sequence, in Lab 3 rmsd and transform are those of the candidate's
\* prediction against all CA atoms of reference.pdb, whatever candidates
\* were scored before; the reference itself is never modified.
C10_Independent ==
    /\ nb = "lab2" =>
          /\ ref_embeddings \in {None, PredictEmbeddings(ReferenceSequence)}
          /\ \A j \in 1..Len(gen_sequences) :
                ~IsNone(gen_sequences[j].distance) =>
                    gen_sequences[j].distance =
                        cosine_distance(gen_sequences[j].embeddings,
                                        PredictEmbeddings(ReferenceSequence),
                                        TRUE).value
    /\ nb = "lab3" =>
          /\ ref_structure \in {Undefined, files.reference_pdb}
          /\ \A j \in ScoredSet :
                LET own == ScoreStructure(SelectCA(files.reference_pdb), Prediction(j))
                IN  /\ structures[j].rmsd = own.rmsd_after
                    /\ structures[j].transform = own.transform

\* a candidate with fewer CA atoms than the reference was scored before a
\* candidate with at least as many as the reference
C10_Witness ==
    /\ nb = "lab3"
    /\ \E j, k \in ScoredSet :
          /\ j < k
          /\ 0 < CACount(Prediction(j))
          /\ CACount(Prediction(j)) < CACount(ref_structure)
          /\ CACount(Prediction(k)) >= CACount(ref_structure)

-----------------------------------------------------------------------------
(* Properties of cosine_distance *)

Returned_(c) == c.state = "returned"

\* the sum over the positions strictly between the first and the last
InteriorSum(e, d) ==
    SumSeq([p \in 1..e.shape[2] |->
              IF p = 1 \/ p = e.shape[2] THEN 0 ELSE e.data[p][d]])

\* vec is the mean of e over positions 1..L-2 (0-based), first and last left out
IsInteriorMean(vec, e) ==
    /\ Len(vec.num) = e.shape[3]
    /\ vec.den = (IF e.shape[2] >= 2 THEN e.shape[2] - 2 ELSE 0)
    /\ \A d \in 1..e.shape[3] : vec.num[d] = InteriorSum(e, d)

\* C6: with mean pooling each array of shape (1, L, D) is handed to the
\* distance as one vector of D entries, the mean over the positions between
\* the first and the last, for every L; two arrays with the same D give one
\* scalar, whatever their L.
C6_MeanPooling ==
    (Returned_(call) /\ call.mean_pooling) =>
        /\ IsInteriorMean(call.u, call.embeddings1)
        /\ IsInteriorMean(call.v, call.embeddings2)
        /\ call.embeddings1.shape[3] = call.embeddings2.shape[3] =>
              /\ Len(call.u.num) = Len(call.v.num)
              /\ call.result.raised = "none"
              /\ call.result.value.t \in {"cos", "nan"}

\* two arrays of different lengths, pooled to a number
C6_Witness ==
    /\ Returned_(call) /\ call.mean_pooling
    /\ call.embeddings1.shape[2] = 3
    /\ call.embeddings2.shape[2] = 5
    /\ call.result.raised = "none"
    /\ call.result.value.t = "cos"

ZeroMagnitude(vec) == vec.den # 0 /\ \A d \in 1..Len(vec.num) : vec.num[d] = 0

\* C7: whenever one of the two flattened vectors has zero magnitude, or the
\* two have different lengths, cosine_distance raises and returns nothing.
C7_InvalidInputRaises ==
    (/\ Returned_(call)
     /\ \/ ZeroMagnitude(call.u)
        \/ ZeroMagnitude(call.v)
        \/ Len(call.u.num) # Len(call.v.num))
    => call.result.raised # "none"

-----------------------------------------------------------------------------
(* Properties of the identifiers and of the ESMFold runs *)

UniqueIds(rows) ==
    \A j, k \in 1..Len(rows) : j # k => rows[j].prompt_id # rows[k].prompt_id

UniqueRecordIds(recs) ==
    \A j, k \in 1..Len(recs) : j # k => recs[j].id # recs[k].id

\* C11: once the loading cell has run, no two candidates of gen_sequences
\* (Lab 2) or of structures (Lab 3) have the same prompt_id, no two rows of
\* the frame have the same index, and no two records written have the same
\* id.
C11_UniquePromptId ==
    /\ (nb = "lab2" /\ status["2.1"] = "ok") => UniqueIds(gen_sequences)
    /\ (nb = "lab3" /\ status["3.2"] = "ok") => UniqueIds(structures)
    /\ (InNotebook /\ df # Undefined) => UniqueIds(df.rows)
    /\ InNotebook => UniqueRecordIds(records)

\* the run started for candidate j
RunOf(j) == runs[structures[j].run_id]

\* C12: a prediction file is in ./data only for a run that has completed,
\* and every candidate Step 4.3 has scored has a completed run: none is
\* scored while its run is pending or running, or after it has failed.
C12_ScoredAfterCompleted ==
    nb = "lab3" =>
        /\ \A id \in 1..Len(files.results) :
              ~IsNone(files.results[id]) => runs[id].status = "COMPLETED"
        /\ \A j \in ScoredSet : RunOf(j).status = "COMPLETED"

\* what the cells do give: a candidate is scored only from a prediction its
\* own run has exported
ScoredFromExportedRun ==
    nb = "lab3" =>
        \A j \in ScoredSet :
            /\ RunOf(j).exported
            /\ Prediction(j) = RunOutput(RunOf(j))

\* C13: what a run has read from its input object is the sequence stored in
\* the structures entry with its run_id.
C13_RunReadsOwnSequence ==
    nb = "lab3" =>
        \A id \in 1..Len(runs) :
            ~IsNone(runs[id].input) =>
                \A j \in 1..Len(structures) :
                    structures[j].run_id = id =>
                        runs[id].input.body.seq = structures[j].sequence

\* the same for the batches whose record ids are all different: every key
\* is then written once
RunReadsOwnSequenceOfUnique ==
    (nb = "lab3" /\ UniqueRecordIds(files.lab2_top)) => C13_RunReadsOwnSequence

====
